---------------------------- MODULE Spec2Model ----------------------------
(***************************************************************************)
(* Model of backend/app.py: the Flask image-classification service.        *)
(*                                                                         *)
(* The process imports the module (which loads the model once), starts the *)
(* server, and then handles POST /predict requests one at a time.  Text    *)
(* (image_data, error messages) is a sequence of one-character strings, so *)
(* that the regular expression, the base64 decoder and str(e) are computed *)
(* character by character as the libraries compute them.                   *)
(***************************************************************************)
EXTENDS Integers, Sequences, FiniteSets, TLC

(***************************************************************************)
(* Bounds of the model.                                                    *)
(***************************************************************************)
(* Longest base64 payload (in characters) a request carries. *)
MaxLen ==
    5

(* Scores are the floats 0/MaxScore, 1/MaxScore, ..., 1, kept as their     *)
(* numerators; the order and equality of the floats are those of the       *)
(* numerators.                                                             *)
MaxScore ==
    2

(***************************************************************************)
(* Text constants.                                                         *)
(***************************************************************************)
(* The standard base64 alphabet used by base64.b64decode; position - 1 is the 6-bit value. *)
B64Chars ==
    <<"A", "B", "C", "D", "E", "F", "G", "H", "I", "J", "K", "L", "M", "N",
      "O", "P", "Q", "R", "S", "T", "U", "V", "W", "X", "Y", "Z", "a", "b",
      "c", "d", "e", "f", "g", "h", "i", "j", "k", "l", "m", "n", "o", "p",
      "q", "r", "s", "t", "u", "v", "w", "x", "y", "z", "0", "1", "2", "3",
      "4", "5", "6", "7", "8", "9", "+", "/">>

(* Decimal digits, for the %zd conversion in the binascii message. *)
DecDigits ==
    <<"0", "1", "2", "3", "4", "5", "6", "7", "8", "9">>

(* Literal head of the pattern "^data:image/.+;base64,". *)
DATA_IMAGE ==
    <<"d", "a", "t", "a", ":", "i", "m", "a", "g", "e", "/">>

(* Literal tail of the pattern "^data:image/.+;base64,". *)
BASE64_COMMA ==
    <<";", "b", "a", "s", "e", "6", "4", ",">>

(* An image type. *)
PNG ==
    <<"p", "n", "g">>

(* An image type. *)
JPEG ==
    <<"j", "p", "e", "g">>

(* The word looked for in the error message. *)
WORD_OUTPUT ==
    <<"o", "u", "t", "p", "u", "t">>

(* ValueError("Missing image_data") *)
MSG_MISSING_IMAGE_DATA ==
    <<"M", "i", "s", "s", "i", "n", "g", " ", "i", "m", "a", "g", "e", "_",
      "d", "a", "t", "a">>

(* Body of the early return when the mapping has no output_0. *)
MSG_MISSING_OUTPUT ==
    <<"M", "i", "s", "s", "i", "n", "g", " ", "'", "o", "u", "t", "p", "u",
      "t", "_", "0", "'", " ", "i", "n", " ", "p", "r", "e", "d", "i", "c",
      "t", "i", "o", "n">>

(* Body of the early return when the resolved value is not an ndarray. *)
MSG_INVALID_OUTPUT ==
    <<"I", "n", "v", "a", "l", "i", "d", " ", "p", "r", "e", "d", "i", "c",
      "t", "i", "o", "n", " ", "o", "u", "t", "p", "u", "t">>

(* str() of the BadRequest raised by request.get_json() on a malformed body. *)
MSG_BAD_REQUEST ==
    <<"4", "0", "0", " ", "B", "a", "d", " ", "R", "e", "q", "u", "e", "s",
      "t", ":", " ", "F", "a", "i", "l", "e", "d", " ", "t", "o", " ", "d",
      "e", "c", "o", "d", "e", " ", "J", "S", "O", "N", " ", "o", "b", "j",
      "e", "c", "t">>

(* str() of the AttributeError of data.get when data is None. *)
MSG_NO_GET ==
    <<"'", "N", "o", "n", "e", "T", "y", "p", "e", "'", " ", "o", "b", "j",
      "e", "c", "t", " ", "h", "a", "s", " ", "n", "o", " ", "a", "t", "t",
      "r", "i", "b", "u", "t", "e", " ", "'", "g", "e", "t", "'">>

(* str() of the AttributeError of preds.keys() when preds is an ndarray. *)
MSG_NO_KEYS ==
    <<"'", "n", "u", "m", "p", "y", ".", "n", "d", "a", "r", "r", "a", "y",
      "'", " ", "o", "b", "j", "e", "c", "t", " ", "h", "a", "s", " ", "n",
      "o", " ", "a", "t", "t", "r", "i", "b", "u", "t", "e", " ", "'", "k",
      "e", "y", "s", "'">>

(* str() of the TypeError of re.sub on a non-string. *)
MSG_RE_TYPE ==
    <<"e", "x", "p", "e", "c", "t", "e", "d", " ", "s", "t", "r", "i", "n",
      "g", " ", "o", "r", " ", "b", "y", "t", "e", "s", "-", "l", "i", "k",
      "e", " ", "o", "b", "j", "e", "c", "t">>

(* str() of the ValueError of b64decode on a non-ASCII str. *)
MSG_NOT_ASCII ==
    <<"s", "t", "r", "i", "n", "g", " ", "a", "r", "g", "u", "m", "e", "n",
      "t", " ", "s", "h", "o", "u", "l", "d", " ", "c", "o", "n", "t", "a",
      "i", "n", " ", "o", "n", "l", "y", " ", "A", "S", "C", "I", "I", " ",
      "c", "h", "a", "r", "a", "c", "t", "e", "r", "s">>

(* str() of binascii.Error for an incomplete quad. *)
MSG_PADDING ==
    <<"I", "n", "c", "o", "r", "r", "e", "c", "t", " ", "p", "a", "d", "d",
      "i", "n", "g">>

(* binascii.Error message for quad_pos = 1, up to the count. *)
MSG_DATA_CHARS_HEAD ==
    <<"I", "n", "v", "a", "l", "i", "d", " ", "b", "a", "s", "e", "6", "4",
      "-", "e", "n", "c", "o", "d", "e", "d", " ", "s", "t", "r", "i", "n",
      "g", ":", " ", "n", "u", "m", "b", "e", "r", " ", "o", "f", " ", "d",
      "a", "t", "a", " ", "c", "h", "a", "r", "a", "c", "t", "e", "r", "s",
      " ", "(">>

(* binascii.Error message for quad_pos = 1, after the count. *)
MSG_DATA_CHARS_TAIL ==
    <<")", " ", "c", "a", "n", "n", "o", "t", " ", "b", "e", " ", "1", " ",
      "m", "o", "r", "e", " ", "t", "h", "a", "n", " ", "a", " ", "m", "u",
      "l", "t", "i", "p", "l", "e", " ", "o", "f", " ", "4">>

(* str() of PIL.UnidentifiedImageError (the object address that follows is left out). *)
MSG_NOT_IMAGE ==
    <<"c", "a", "n", "n", "o", "t", " ", "i", "d", "e", "n", "t", "i", "f",
      "y", " ", "i", "m", "a", "g", "e", " ", "f", "i", "l", "e">>

(* str() of the NameError of reading the global model when it was never bound. *)
MSG_MODEL_UNBOUND ==
    <<"n", "a", "m", "e", " ", "'", "m", "o", "d", "e", "l", "'", " ", "i",
      "s", " ", "n", "o", "t", " ", "d", "e", "f", "i", "n", "e", "d">>

(* str() of an exception raised inside model.predict. *)
MSG_INFERENCE ==
    <<"i", "n", "f", "e", "r", "e", "n", "c", "e", " ", "f", "a", "i", "l",
      "e", "d">>

(* str() of the IndexError of class_labels[i]. *)
MSG_INDEX ==
    <<"l", "i", "s", "t", " ", "i", "n", "d", "e", "x", " ", "o", "u", "t",
      " ", "o", "f", " ", "r", "a", "n", "g", "e">>

(* str() of the TypeError of enumerate() over a float. *)
MSG_NOT_ITERABLE ==
    <<"'", "f", "l", "o", "a", "t", "'", " ", "o", "b", "j", "e", "c", "t",
      " ", "i", "s", " ", "n", "o", "t", " ", "i", "t", "e", "r", "a", "b",
      "l", "e">>

(* The line feed, the one character "." does not match. *)
LF ==
    "\n"

(* A character outside ASCII (e-acute), named by its code point. *)
NON_ASCII ==
    "U+00E9"

(* The six class labels, in the model's output order. *)
class_labels ==
    << "Comfort_fabric_conditioner",
       "Prima_noodles",
       "Raigam_soya_meat",
       "Safe_guard_soap",
       "Signal_toothbrush",
       "Vim_dishwash_bar" >>

(***************************************************************************)
(* Results of a call: a value, or a raised exception.                      *)
(***************************************************************************)
NoExc ==
    [type |-> "", msg |-> <<>>]

Ok(v) ==
    [ok |-> TRUE, val |-> v, exc |-> NoExc]

Raise(t, m) ==
    [ok |-> FALSE, val |-> <<>>, exc |-> [type |-> t, msg |-> m]]

(* s contains w as a contiguous substring (Python's "w in s"). *)
Contains(s, w) ==
    \E i \in 1..(Len(s) - Len(w) + 1) : SubSeq(s, i, i + Len(w) - 1) = w

(* s begins with p (the "^" anchor followed by a literal). *)
StartsWith(s, p) ==
    Len(s) >= Len(p) /\ SubSeq(s, 1, Len(p)) = p

(* Decimal text of a natural number (%zd). *)
RECURSIVE Digits(_)
Digits(n) ==
    IF n < 10 THEN <<DecDigits[n + 1]>>
    ELSE Append(Digits(n \div 10), DecDigits[(n % 10) + 1])

(***************************************************************************)
(* re.sub("^data:image/.+;base64,", "", image_data)                        *)
(***************************************************************************)
(* Positions where ";base64," starts such that the pattern matches from    *)
(* the start of s up to its end: "data:image/" first, then one or more     *)
(* characters other than a line feed.                                      *)
PrefixEnds(s) ==
    IF ~StartsWith(s, DATA_IMAGE) THEN {} ELSE
    { j \in (Len(DATA_IMAGE) + 2)..(Len(s) - Len(BASE64_COMMA) + 1) :
        /\ SubSeq(s, j, j + Len(BASE64_COMMA) - 1) = BASE64_COMMA
        /\ \A k \in (Len(DATA_IMAGE) + 1)..(j - 1) : s[k] # LF }

(* re.sub with the pattern written for one image type only,                *)
(* "^data:image/jpeg;base64,".                                             *)
re_sub_jpeg_only(s) ==
    IF StartsWith(s, DATA_IMAGE \o JPEG \o BASE64_COMMA)
    THEN SubSeq(s, Len(DATA_IMAGE \o JPEG \o BASE64_COMMA) + 1, Len(s))
    ELSE s

(* ".+" is greedy: the match runs to the last ";base64," it can reach. *)
re_sub(s) ==
    IF PrefixEnds(s) = {} THEN s
    ELSE LET j == CHOOSE m \in PrefixEnds(s) : \A n \in PrefixEnds(s) : n <= m
         IN  SubSeq(s, j + Len(BASE64_COMMA), Len(s))

(***************************************************************************)
(* base64.b64decode(s), validate=False                                     *)
(***************************************************************************)
(* table_a2b_base64: the 6-bit value of each character of the alphabet. *)
table_a2b_base64 ==
    [c \in { B64Chars[i] : i \in 1..Len(B64Chars) } |->
        (CHOOSE i \in 1..Len(B64Chars) : B64Chars[i] = c) - 1]

IsB64(c) ==
    c \in DOMAIN table_a2b_base64

B64Index(c) ==
    table_a2b_base64[c]

(* binascii.a2b_base64 in non-strict mode: characters outside the alphabet *)
(* are skipped, a pad sequence that completes a quad ends the parse, and   *)
(* an incomplete quad at the end of the input is an error.  Bytes are      *)
(* 8-bit, hence the % 256.                                                 *)
RECURSIVE a2b_base64(_, _, _, _, _, _)
a2b_base64(s, i, quad_pos, leftchar, pads, bin) ==
    IF i > Len(s) THEN
        IF quad_pos = 0 THEN Ok(bin)
        ELSE IF quad_pos = 1 THEN
            Raise("binascii.Error",
                  MSG_DATA_CHARS_HEAD \o Digits((Len(bin) \div 3) * 4 + 1)
                      \o MSG_DATA_CHARS_TAIL)
        ELSE Raise("binascii.Error", MSG_PADDING)
    ELSE IF s[i] = "=" THEN
        IF quad_pos >= 2 /\ quad_pos + pads + 1 >= 4 THEN Ok(bin)
        ELSE a2b_base64(s, i + 1, quad_pos, leftchar,
                        IF quad_pos >= 2 THEN pads + 1 ELSE pads, bin)
    ELSE IF ~IsB64(s[i]) THEN
        a2b_base64(s, i + 1, quad_pos, leftchar, pads, bin)
    ELSE LET this_ch == B64Index(s[i]) IN
        CASE quad_pos = 0 ->
               a2b_base64(s, i + 1, 1, this_ch, 0, bin)
          [] quad_pos = 1 ->
               a2b_base64(s, i + 1, 2, this_ch % 16, 0,
                   Append(bin, (leftchar * 4 + this_ch \div 16) % 256))
          [] quad_pos = 2 ->
               a2b_base64(s, i + 1, 3, this_ch % 4, 0,
                   Append(bin, (leftchar * 16 + this_ch \div 4) % 256))
          [] quad_pos = 3 ->
               a2b_base64(s, i + 1, 0, 0, 0,
                   Append(bin, (leftchar * 64 + this_ch) % 256))

(* A str argument is first encoded as ASCII, which fails on any other      *)
(* character; then the non-strict decoder runs.                            *)
b64decode(s) ==
    IF \E i \in 1..Len(s) : s[i] = NON_ASCII
    THEN Raise("ValueError", MSG_NOT_ASCII)
    ELSE a2b_base64(s, 1, 0, 0, 0, <<>>)

(* str() of the IndexError of indexing an empty 1-D array with 0. *)
MSG_AXIS ==
    <<"i", "n", "d", "e", "x", " ", "0", " ", "i", "s", " ", "o", "u", "t",
      " ", "o", "f", " ", "b", "o", "u", "n", "d", "s", " ", "f", "o", "r",
      " ", "a", "x", "i", "s", " ", "0", " ", "w", "i", "t", "h", " ", "s",
      "i", "z", "e", " ", "0">>

(***************************************************************************)
(* Values that cross the handler's boundaries.                             *)
(***************************************************************************)
(* JSON values of the field image_data. *)
JStr(s) ==
    [type |-> "str", s |-> s, n |-> 0]

JNum(n) ==
    [type |-> "number", s |-> <<>>, n |-> n]

JNull ==
    [type |-> "null", s |-> <<>>, n |-> 0]

(* Python truth value of a JSON value ("not image_data"). *)
Truthy(v) ==
    CASE v.type = "str" -> v.s # <<>>
      [] v.type = "number" -> v.n # 0
      [] OTHER -> FALSE

(* What the inference call may return: a dict (with or without output_0)   *)
(* or a numpy array (shape and flat element buffer); output_0 may also     *)
(* hold an object that is no numpy array.                                  *)
PyDict(out0) ==
    [type |-> "dict", output_0 |-> out0, shape |-> <<>>, flat |-> <<>>]

NdArray(shape, flat) ==
    [type |-> "ndarray", output_0 |-> <<>>, shape |-> shape, flat |-> flat]

Tensor ==
    [type |-> "Tensor", output_0 |-> <<>>, shape |-> <<>>, flat |-> <<>>]

(* A batch of one score row, as the network returns it for one image. *)
Batch(row) ==
    NdArray(<<1, Len(row)>>, row)

(***************************************************************************)
(* Steps of predict()                                                      *)
(***************************************************************************)
(* request.get_json(): BadRequest on a malformed body, else the value. *)
get_json(body) ==
    IF body.parse = "malformed" THEN Raise("BadRequest", MSG_BAD_REQUEST)
    ELSE Ok(body)

(* data.get("image_data"): None when data has no such key; data must be a  *)
(* dict to have get at all.                                                *)
data_get(data) ==
    IF data.type # "dict" THEN Raise("AttributeError", MSG_NO_GET)
    ELSE IF data.image_data = <<>> THEN Ok(JNull)
    ELSE Ok(data.image_data[1])

(* The check written as "if image_data is None". *)
check_image_data_none_only(image_data) ==
    IF image_data.type = "null"
    THEN Raise("ValueError", MSG_MISSING_IMAGE_DATA)
    ELSE Ok(image_data)

(* if not image_data: raise ValueError("Missing image_data") *)
check_image_data(image_data) ==
    IF ~Truthy(image_data) THEN Raise("ValueError", MSG_MISSING_IMAGE_DATA)
    ELSE Ok(image_data)

(* re.sub + b64decode; re.sub rejects anything that is not a string. *)
decode_image_data(image_data) ==
    IF image_data.type # "str" THEN Raise("TypeError", MSG_RE_TYPE)
    ELSE b64decode(re_sub(image_data.s))

(* The file signature Image.open looks for ("BM", the shortest one PIL     *)
(* knows); the rest of the bytes are the picture.                          *)
ImageSignature ==
    <<66, 77>>

(* Image.open(...).convert("RGB").resize((224, 224)): an image determined  *)
(* by the bytes, or UnidentifiedImageError.                                *)
Image_open(img_bytes) ==
    IF StartsWith(img_bytes, ImageSignature)
    THEN Ok([size |-> <<224, 224>>, mode |-> "RGB", source |-> img_bytes])
    ELSE Raise("UnidentifiedImageError", MSG_NOT_IMAGE)

(* np.array(img) / 255.0 and np.expand_dims(x, 0) *)
to_tensor(img) ==
    [shape |-> <<1>> \o img.size \o <<3>>, source |-> img.source]

(* model.predict(x): out is what the inference engine does with x. *)
model_predict(mdl, x, out) ==
    IF mdl # "loaded" THEN Raise("NameError", MSG_MODEL_UNBOUND)
    ELSE IF out.raises THEN Raise("InferenceError", MSG_INFERENCE)
    ELSE Ok(out.value)

(* logger.info(f"Output keys from model: {list(preds.keys())}") *)
log_output_keys(preds) ==
    IF preds.type = "dict" THEN Ok(preds)
    ELSE Raise("AttributeError", MSG_NO_KEYS)

(* The two early returns of the handler. *)
ErrorResponse(msg) ==
    [status |-> 500, body |-> [error |-> msg]]

(* The early return without its ", 500". *)
MissingOutputResponse_no_status ==
    [status |-> 200, body |-> [error |-> MSG_MISSING_OUTPUT]]

MissingOutputResponse ==
    ErrorResponse(MSG_MISSING_OUTPUT)

InvalidOutputResponse ==
    ErrorResponse(MSG_INVALID_OUTPUT)

(* if isinstance(preds, dict): preds.get("output_0") ... else: preds.      *)
(* Gives the array to format, or the early return.                         *)
resolve_output(preds) ==
    IF preds.type = "dict" THEN
        IF preds.output_0 = <<>>
        THEN [ret |-> <<MissingOutputResponse>>, arr |-> <<>>]
        ELSE [ret |-> <<>>, arr |-> preds.output_0]
    ELSE [ret |-> <<>>, arr |-> <<preds>>]

(* preds_array[0].tolist(): the first row of a 2-D array as a list; the    *)
(* first element of a 1-D array is a scalar, which enumerate() rejects.    *)
first_row_tolist(arr) ==
    IF Len(arr.shape) = 1 THEN
        IF arr.shape[1] = 0 THEN Raise("IndexError", MSG_AXIS)
        ELSE Raise("TypeError", MSG_NOT_ITERABLE)
    ELSE IF arr.shape[1] = 0 THEN Raise("IndexError", MSG_AXIS)
    ELSE Ok(SubSeq(arr.flat, 1, arr.shape[2]))

(* float(prob) of a Python float is that float. *)
Float(prob) ==
    prob

(* The list comprehension: class_labels[i] raises once i passes the last   *)
(* label.                                                                  *)
label_results(preds_list) ==
    IF Len(preds_list) > Len(class_labels) THEN Raise("IndexError", MSG_INDEX)
    ELSE Ok([i \in 1..Len(preds_list) |->
                [class |-> class_labels[i],
                 probability |-> Float(preds_list[i])]])

(* The sort without reverse=True: ascending. *)
insert_sorted_ascending(sorted, item) ==
    LET k == Cardinality({ i \in 1..Len(sorted) :
                             sorted[i].probability <= item.probability })
    IN  SubSeq(sorted, 1, k) \o <<item>> \o SubSeq(sorted, k + 1, Len(sorted))

(* A descending sort that puts an item before its equals, as sorting       *)
(* ascending and reversing the list does.                                  *)
insert_sorted_unstable(sorted, item) ==
    LET k == Cardinality({ i \in 1..Len(sorted) :
                             sorted[i].probability > item.probability })
    IN  SubSeq(sorted, 1, k) \o <<item>> \o SubSeq(sorted, k + 1, Len(sorted))

(* Where list.sort(key=probability, reverse=True) puts one more item in a  *)
(* list already in order: after every item whose probability is greater or *)
(* equal, so that equal items keep the order they came in (the sort is     *)
(* stable).                                                                *)
insert_sorted(sorted, item) ==
    LET k == Cardinality({ i \in 1..Len(sorted) :
                             sorted[i].probability >= item.probability })
    IN  SubSeq(sorted, 1, k) \o <<item>> \o SubSeq(sorted, k + 1, Len(sorted))

RECURSIVE sort_from(_, _, _)
sort_from(results, i, sorted) ==
    IF i > Len(results) THEN sorted
    ELSE sort_from(results, i + 1, insert_sorted(sorted, results[i]))

(* results.sort(key=lambda x: x["probability"], reverse=True) *)
sort_reverse(results) ==
    sort_from(results, 1, <<>>)

(* jsonify({"predictions": results}), status 200 *)
SuccessResponse(results) ==
    [status |-> 200, body |-> [predictions |-> results]]

(* The locals of predict() that outlive the step that bound them; <<>> is  *)
(* "not bound yet".                                                        *)
Locals(b, t, p) ==
    [img_bytes |-> b, x |-> t, preds |-> p]

Returned(response, locals) ==
    [raised |-> FALSE, resp |-> <<response>>, exc |-> NoExc, locals |-> locals]

Thrown(exc, locals) ==
    [raised |-> TRUE, resp |-> <<>>, exc |-> exc, locals |-> locals]

(* The try block up to the inference call: get_json(), the image_data      *)
(* check, re.sub, b64decode, Image.open and the conversion to a tensor.    *)
decode_request(body) ==
    LET data == get_json(body) IN
    IF ~data.ok THEN Thrown(data.exc, Locals(<<>>, <<>>, <<>>)) ELSE
    LET field == data_get(data.val) IN
    IF ~field.ok THEN Thrown(field.exc, Locals(<<>>, <<>>, <<>>)) ELSE
    LET image_data == check_image_data(field.val) IN
    IF ~image_data.ok
    THEN Thrown(image_data.exc, Locals(<<>>, <<>>, <<>>)) ELSE
    LET dec == decode_image_data(image_data.val) IN
    IF ~dec.ok THEN Thrown(dec.exc, Locals(<<>>, <<>>, <<>>)) ELSE
    LET img == Image_open(dec.val) IN
    IF ~img.ok THEN Thrown(img.exc, Locals(<<dec.val>>, <<>>, <<>>)) ELSE
    [raised |-> FALSE, resp |-> <<>>, exc |-> NoExc,
     locals |-> Locals(<<dec.val>>, <<to_tensor(img.val)>>, <<>>)]

(* The try block from the inference call to the last return; decoded is    *)
(* where decode_request left the locals.                                   *)
infer_and_format(decoded, out, mdl) ==
    LET p == model_predict(mdl, decoded.x[1], out) IN
    IF ~p.ok THEN Thrown(p.exc, decoded) ELSE
    LET locals == Locals(decoded.img_bytes, decoded.x, <<p.val>>)
        keys == log_output_keys(p.val)
    IN
    IF ~keys.ok THEN Thrown(keys.exc, locals) ELSE
    LET res == resolve_output(p.val) IN
    IF res.ret # <<>> THEN Returned(res.ret[1], locals) ELSE
    IF res.arr[1].type # "ndarray"
    THEN Returned(InvalidOutputResponse, locals) ELSE
    LET preds_list == first_row_tolist(res.arr[1]) IN
    IF ~preds_list.ok THEN Thrown(preds_list.exc, locals) ELSE
    LET results == label_results(preds_list.val) IN
    IF ~results.ok THEN Thrown(results.exc, locals) ELSE
    Returned(SuccessResponse(sort_reverse(results.val)), locals)

(* Every exception the steps above raise is a subclass of Exception. *)
ExceptionSubclasses ==
    { "BadRequest", "AttributeError", "ValueError", "TypeError",
      "binascii.Error", "UnidentifiedImageError", "NameError",
      "InferenceError", "IndexError" }

(* except ValueError as e *)
catches_value_error_only(exc) ==
    exc.type \in {"ValueError", "binascii.Error"}

(* except Exception as e *)
catches(exc) ==
    exc.type \in ExceptionSubclasses

(* The except clause applied to how the try block ended: a caught          *)
(* exception becomes the 500 response; one that is not caught leaves the   *)
(* handler without a response.                                             *)
except_clause(r) ==
    IF ~r.raised THEN [resp |-> r.resp, e |-> <<>>, locals |-> r.locals]
    ELSE IF catches(r.exc)
    THEN [resp |-> <<ErrorResponse(r.exc.msg)>>, e |-> <<r.exc>>,
          locals |-> r.locals]
    ELSE [resp |-> <<>>, e |-> <<r.exc>>, locals |-> r.locals]

(* The except clause without its raise: the import goes on. *)
after_load_failure_swallowed ==
    "imported"

(* raise e  # Stop app if model loading fails *)
after_load_failure ==
    "exited"

(***************************************************************************)
(* Inputs                                                                  *)
(***************************************************************************)
(* Characters of a payload: three of the alphabet, the pad, a line feed    *)
(* (outside the alphabet) and one outside ASCII.                           *)
PayloadChars ==
    {"Q", "k", "0", "=", LF, NON_ASCII}

Payloads ==
    UNION { [1..n -> PayloadChars] : n \in 0..MaxLen }

ImageTypes ==
    {PNG, JPEG}

DataUri(T) ==
    DATA_IMAGE \o T \o BASE64_COMMA

(* No prefix, a data-URI prefix, or one whose image type is missing. *)
Prefixes ==
    {<<>>, DataUri(<<>>)} \cup { DataUri(T) : T \in ImageTypes }

ImageStrings ==
    { p \o s : p \in Prefixes, s \in Payloads }

Body(parse, type, field) ==
    [parse |-> parse, type |-> type, image_data |-> field]

RequestBodies ==
    {Body("malformed", "null", <<>>), Body("ok", "null", <<>>),
     Body("ok", "dict", <<>>)}
      \cup { Body("ok", "dict", <<v>>) : v \in {JNull, JNum(0), JNum(5)} }
      \cup { Body("ok", "dict", <<JStr(s)>>) : s \in ImageStrings }

Scores ==
    0..MaxScore

Rows ==
    UNION { [1..n -> Scores] : n \in 0..(Len(class_labels) + 1) }

Arrays ==
    { Batch(r) : r \in Rows }
      \cup { NdArray(<<Len(r)>>, r) : r \in {<<>>, <<MaxScore, 0>>} }

Outcome(raises, value) ==
    [raises |-> raises, value |-> value]

InferenceOutcomes ==
    {Outcome(TRUE, Tensor),
     Outcome(FALSE, PyDict(<<>>)), Outcome(FALSE, PyDict(<<Tensor>>))}
      \cup { Outcome(FALSE, a) : a \in Arrays }
      \cup { Outcome(FALSE, PyDict(<<a>>)) : a \in Arrays }

(* The request every inference result is tried with, and the inference    *)
(* results every other request is tried with.                              *)
ProbeRow ==
    <<MaxScore, 0, MaxScore, 0, 0, 0>>

ProbeBodies ==
    {Body("ok", "dict", <<JStr(<<"Q", "k", "0", "=">>)>>)}

ProbeOutcomes ==
    {Outcome(TRUE, Tensor),
     Outcome(FALSE, PyDict(<<>>)), Outcome(FALSE, PyDict(<<Tensor>>)),
     Outcome(FALSE, Batch(ProbeRow)),
     Outcome(FALSE, PyDict(<<Batch(ProbeRow)>>))}

(***************************************************************************)
(* State                                                                   *)
(***************************************************************************)
VARIABLES
    proc,       \* "importing", "imported", "serving" or "exited"
    model,      \* the global model: "unbound" or "loaded"
    request,    \* <<body>> of the request being answered, <<>> when idle
    img_bytes,  \* predict()'s local img_bytes, <<>> while unbound
    x,          \* predict()'s local x
    preds,      \* predict()'s local preds
    e,          \* the exception bound by "except Exception as e"
    resp        \* <<response>> predict() returned, <<>> if none

vars ==
    <<proc, model, request, img_bytes, x, preds, e, resp>>

handler ==
    <<request, img_bytes, x, preds, e, resp>>

Init ==
    /\ proc = "importing"
    /\ model = "unbound"
    /\ request = <<>>
    /\ img_bytes = <<>>
    /\ x = <<>>
    /\ preds = <<>>
    /\ e = <<>>
    /\ resp = <<>>

(* The module-level try block: Sequential([...TFSMLayer(saved_model_dir)]) *)
(* either binds model or raises, and the except clause re-raises.          *)
LoadModel ==
    /\ proc = "importing"
    /\ \E loaded \in BOOLEAN :
         IF loaded
         THEN model' = "loaded" /\ proc' = "imported"
         ELSE model' = model /\ proc' = after_load_failure
    /\ UNCHANGED handler

(* app.run(host="0.0.0.0", port=5000, debug=True) *)
AppRun ==
    /\ proc = "imported"
    /\ proc' = "serving"
    /\ UNCHANGED <<model, handler>>

(* predict() returns: r is how the try/except ended for this body. *)
Return(body, r) ==
    /\ request' = <<body>>
    /\ img_bytes' = r.locals.img_bytes
    /\ x' = r.locals.x
    /\ preds' = r.locals.preds
    /\ e' = r.e
    /\ resp' = r.resp

(* The inference results a request is tried with: every result for the     *)
(* probe body, the probe results for the others.                           *)
OutcomesFor(body) ==
    IF body \in ProbeBodies THEN InferenceOutcomes ELSE ProbeOutcomes

(* POST /predict: one request handled to completion.  The inference call   *)
(* happens, and has an outcome, only if the request decodes to a tensor.   *)
Predict ==
    /\ proc = "serving"
    /\ request = <<>>
    /\ \E body \in RequestBodies :
         \E d \in {decode_request(body)} :
           IF d.raised
           THEN \E r \in {except_clause(d)} : Return(body, r)
           ELSE \E out \in OutcomesFor(body) :
                  \E r \in {except_clause(infer_and_format(d.locals, out, model))} :
                    Return(body, r)
    /\ UNCHANGED <<proc, model>>

(* The server sends what predict() returned and waits for the next         *)
(* request; the locals of the call are gone.                               *)
SendResponse ==
    /\ proc = "serving"
    /\ request # <<>>
    /\ request' = <<>>
    /\ img_bytes' = <<>>
    /\ x' = <<>>
    /\ preds' = <<>>
    /\ e' = <<>>
    /\ resp' = <<>>
    /\ UNCHANGED <<proc, model>>

Next ==
    \/ LoadModel
    \/ AppRun
    \/ Predict
    \/ SendResponse

Spec ==
    Init /\ [][Next]_vars

(***************************************************************************)
(* Reading the state                                                       *)
(***************************************************************************)
Handled ==
    request # <<>>

Success ==
    /\ resp # <<>>
    /\ resp[1].status = 200
    /\ DOMAIN resp[1].body = {"predictions"}

Failure ==
    /\ resp # <<>>
    /\ resp[1].status = 500
    /\ DOMAIN resp[1].body = {"error"}

(* The request carries image_data as a string. *)
HasString ==
    /\ Handled
    /\ request[1].parse = "ok"
    /\ request[1].type = "dict"
    /\ request[1].image_data # <<>>
    /\ request[1].image_data[1].type = "str"

ImageData ==
    request[1].image_data[1].s

(* The array lines 85-96 work on, when the handler got that far. *)
ReachedFormatter ==
    /\ preds # <<>>
    /\ preds[1].type = "dict"
    /\ preds[1].output_0 # <<>>
    /\ preds[1].output_0[1].type = "ndarray"

PredsArray ==
    preds[1].output_0[1]

LabelIndex(c) ==
    CHOOSE i \in 1..Len(class_labels) : class_labels[i] = c

(* RFC 4648 base64: alphabet characters only, in quads, the last quad      *)
(* ending in at most two pads.                                             *)
ValidBase64(s) ==
    /\ Len(s) % 4 = 0
    /\ \E p \in 0..2 :
         /\ p <= Len(s)
         /\ \A i \in 1..Len(s) :
              IF i > Len(s) - p THEN s[i] = "=" ELSE IsB64(s[i])

(***************************************************************************)
(* C1                                                                      *)
(***************************************************************************)
(* C1: every handled request ends in exactly one of the two outcomes,      *)
(* success (200, body with only predictions) or failure (500, body with    *)
(* only error); an exception raised in the try block is caught, bound to   *)
(* e, and ends in the failure outcome, so none escapes the handler.        *)
C1_TwoOutcomes ==
    Handled =>
        /\ resp # <<>>
        /\ Success # Failure
        /\ e # <<>> => Failure /\ resp[1].body.error = e[1].msg

(* A request whose bytes are no image: the exception was caught. *)
C1_Witness ==
    /\ Handled
    /\ e # <<>>
    /\ e[1].type = "UnidentifiedImageError"
    /\ img_bytes # <<>>
    /\ Failure

(***************************************************************************)
(* C2                                                                      *)
(***************************************************************************)
(* C2: every success response has exactly 6 predictions, one for each of   *)
(* the 6 class labels, whatever the length of the score row.               *)
C2_SixEntriesAlways ==
    Success =>
        /\ Len(resp[1].body.predictions) = Len(class_labels)
        /\ \A i \in 1..Len(class_labels) :
             Cardinality({ k \in 1..Len(resp[1].body.predictions) :
                 resp[1].body.predictions[k].class = class_labels[i] }) = 1

(***************************************************************************)
(* C3                                                                      *)
(***************************************************************************)
(* C3: when the array to format has one batch row of 6 scores, the         *)
(* response has exactly 6 predictions, the pair (class_labels[i],          *)
(* score[i]) appears exactly once for each i, and the probabilities are    *)
(* in non-increasing order.                                                *)
C3_FormatSix ==
    (ReachedFormatter /\ PredsArray.shape = <<1, Len(class_labels)>>) =>
        /\ Success
        /\ LET out == resp[1].body.predictions IN
             /\ Len(out) = Len(class_labels)
             /\ \A i \in 1..Len(class_labels) :
                  Cardinality({ k \in 1..Len(out) :
                      out[k] = [class |-> class_labels[i],
                                probability |-> PredsArray.flat[i]] }) = 1
             /\ \A k \in 1..(Len(out) - 1) :
                  out[k].probability >= out[k + 1].probability

(* Six scores, not all equal and not already in order. *)
C3_Witness ==
    /\ ReachedFormatter
    /\ PredsArray.shape = <<1, Len(class_labels)>>
    /\ PredsArray.flat[1] < PredsArray.flat[2]
    /\ PredsArray.flat[5] < PredsArray.flat[6]
    /\ Success

(***************************************************************************)
(* C4                                                                      *)
(***************************************************************************)
(* C4: in a success response, two predictions with equal probability       *)
(* appear in the order of their labels in class_labels.                    *)
C4_StableTies ==
    Success =>
        LET out == resp[1].body.predictions IN
        \A k, l \in 1..Len(out) :
            (k < l /\ out[k].probability = out[l].probability) =>
                LabelIndex(out[k].class) < LabelIndex(out[l].class)

(* Scores such as [0.5, 0.5, 0.1, 0.1, 0.1, 0.1]: two ties. *)
C4_Witness ==
    /\ Success
    /\ ReachedFormatter
    /\ PredsArray.shape = <<1, Len(class_labels)>>
    /\ PredsArray.flat[1] = PredsArray.flat[2]
    /\ PredsArray.flat[3] = PredsArray.flat[6]
    /\ PredsArray.flat[2] > PredsArray.flat[3]

(***************************************************************************)
(* C5                                                                      *)
(***************************************************************************)
(* C5: when the inference call returns a bare array with one batch row of  *)
(* 6 scores, the request succeeds with the predictions built from that     *)
(* row.                                                                    *)
C5_BareArraySucceeds ==
    (/\ preds # <<>>
     /\ preds[1].type = "ndarray"
     /\ preds[1].shape = <<1, Len(class_labels)>>) =>
        /\ Success
        /\ resp[1].body.predictions =
               sort_reverse(label_results(preds[1].flat).val)

(***************************************************************************)
(* C6                                                                      *)
(***************************************************************************)
(* C6: when the inference call returns a mapping without output_0, the     *)
(* response is 500 with an error message that contains "output", and no    *)
(* predictions.                                                            *)
C6_MissingOutput ==
    (/\ preds # <<>>
     /\ preds[1].type = "dict"
     /\ preds[1].output_0 = <<>>) =>
        /\ Failure
        /\ Contains(resp[1].body.error, WORD_OUTPUT)

C6_Witness ==
    /\ preds # <<>>
    /\ preds[1].type = "dict"
    /\ preds[1].output_0 = <<>>
    /\ resp # <<>>

(***************************************************************************)
(* C7                                                                      *)
(***************************************************************************)
(* C7: a non-empty image_data string that is not valid base64 once the     *)
(* prefix is removed ends in the failure outcome, and the inference call   *)
(* is never run for it.                                                    *)
C7_InvalidBase64Fails ==
    (/\ HasString
     /\ ImageData # <<>>
     /\ ~ValidBase64(re_sub(ImageData))) =>
        /\ Failure
        /\ x = <<>>
        /\ preds = <<>>

(***************************************************************************)
(* C8                                                                      *)
(***************************************************************************)
(* What the handler does, up to the inference call, with image_data = s. *)
DecodeOf(s) ==
    decode_request(Body("ok", "dict", <<JStr(s)>>))

(* C8: a request whose image_data is "data:image/T;base64," followed by a  *)
(* payload X is decoded to the bytes, the tensor and (up to the inference  *)
(* call) the outcome of the request whose image_data is X; and stripping   *)
(* the prefix of a stripped string changes nothing.                        *)
C8_PrefixIrrelevant ==
    HasString =>
        /\ re_sub(re_sub(ImageData)) = re_sub(ImageData)
        /\ \A T \in ImageTypes :
             (/\ StartsWith(ImageData, DataUri(T))
              /\ Len(ImageData) > Len(DataUri(T))) =>
                LET X == SubSeq(ImageData, Len(DataUri(T)) + 1, Len(ImageData))
                    d == DecodeOf(X)
                IN  /\ img_bytes = d.locals.img_bytes
                    /\ x = d.locals.x
                    /\ d.raised => e = <<d.exc>>
                    /\ ~d.raised => preds # <<>> \/ e # <<>>

(* A prefixed image that went through to a success response. *)
C8_Witness ==
    /\ HasString
    /\ StartsWith(ImageData, DataUri(PNG))
    /\ img_bytes = <<ImageSignature>>
    /\ x # <<>>
    /\ Success

(***************************************************************************)
(* C9                                                                      *)
(***************************************************************************)
(* The request is a JSON object without image_data, or with it empty. *)
MissingOrEmpty ==
    /\ Handled
    /\ request[1].parse = "ok"
    /\ request[1].type = "dict"
    /\ \/ request[1].image_data = <<>>
       \/ request[1].image_data[1] = JStr(<<>>)

(* C9: a request without image_data, or with image_data = "", ends in the  *)
(* failure outcome (the ValueError "Missing image_data", caught), nothing  *)
(* is decoded, and the server stays up to send it and take the next        *)
(* request.                                                                *)
C9_MissingField ==
    MissingOrEmpty =>
        /\ Failure
        /\ resp[1].body.error = MSG_MISSING_IMAGE_DATA
        /\ e # <<>>
        /\ img_bytes = <<>>
        /\ proc = "serving"
        /\ ENABLED SendResponse

C9_Witness ==
    /\ MissingOrEmpty
    /\ request[1].image_data = <<JStr(<<>>)>>
    /\ Failure

(***************************************************************************)
(* C10                                                                     *)
(***************************************************************************)
(* C10: the server runs, and a request is handled, only in a process whose *)
(* model load succeeded; and once loaded the model is never rebound.       *)
C10_ModelLoadedOnce ==
    /\ [](proc = "serving" \/ Handled => model = "loaded")
    /\ [][model = "loaded" => model' = "loaded"]_vars
    /\ [][proc = "exited" => proc' = "exited"]_vars

C10_Witness ==
    /\ Handled
    /\ proc = "serving"
    /\ model = "loaded"
    /\ preds # <<>>

=============================================================================
